---- MODULE Spec2Model ----
(***************************************************************************)
(* A model of py-libhdate's HDate class (src/src/hdate/date.py) and of its *)
(* two formatters, hebrew_number and get_omer_string.                      *)
(*                                                                         *)
(* The conversion module hdate.hdate_julian, the tables hdate.htables and  *)
(* hdate.common.set_date are imported by date.py; their definitions here   *)
(* follow the specification's description of them (sections 4.1 - 4.3) and *)
(* the expectations of tests/test_hdate.py.                                *)
(***************************************************************************)
EXTENDS Integers, Sequences, FiniteSets, TLC

VARIABLES
    self,       \* the HDate object: [gdate, h_day, h_month, h_year, diaspora]
    op,         \* the call that produced this state: [name, ...]
    raised,     \* "" when that call returned, else the exception it raised
    ret         \* the value that call returned (NoValue when none)

vars == <<self, op, raised, ret>>

NoValue == [none |-> TRUE]

(***************************************************************************)
(* Bounds of the model.                                                    *)
(***************************************************************************)
\* first Hebrew year of the dates an HDate is moved through
FirstYear == 5781
\* number of consecutive Hebrew years, from FirstYear, of those dates
NumYears == 2
\* first Hebrew year of the dates the read-only queries are asked about
QueryFirstYear == 5744
\* number of consecutive Hebrew years of those dates
QueryNumYears == 70
\* the operations of an HDate take every Stride-th date of its range
Stride == 60
\* today, for a date given as None: this many days into the range
TodayOffset == 100
\* how far below 0 and above 9999 the formatters' argument is drawn
Margin == 30

(***************************************************************************)
(* hdate.hdate_julian: molad arithmetic                                    *)
(*                                                                         *)
(* Every value that is used more than once is handed on as a parameter, so *)
(* each step of an algorithm is an operator of its own.                    *)
(***************************************************************************)
get_chalakim(hours, parts) == hours * 1080 + parts

PARTS_IN_DAY == 24 * 1080
PARTS_IN_WEEK == 7 * PARTS_IN_DAY
PARTS_IN_MONTH == PARTS_IN_DAY + get_chalakim(12, 793)

\* Rosh Hashana is never on Sunday, Wednesday or Friday.
postpone_adu(days, week_day) ==
    IF week_day \in {1, 4, 6} THEN days + 1 ELSE days

\* The two postponements that depend on the molad's time of day.
postpone_molad(days, week_day, parts_left_in_day, leap_left) ==
    IF \/ (leap_left < 12 /\ week_day = 3
           /\ parts_left_in_day >= get_chalakim(9 + 6, 204))
       \/ (leap_left < 7 /\ week_day = 2
           /\ parts_left_in_day >= get_chalakim(15 + 6, 589))
    THEN postpone_adu(days + 1, week_day + 1)
    ELSE postpone_adu(days, week_day)

\* The day and the time of day of the molad, parts after the molad of 3744.
molad_day(months, parts, leap_left) ==
    postpone_molad(months * 28 + parts \div PARTS_IN_DAY - 2,
                   (parts % PARTS_IN_WEEK) \div PARTS_IN_DAY,
                   parts % PARTS_IN_DAY,
                   leap_left)

months_from_3744(months, leap_left) ==
    molad_day(months, months * PARTS_IN_MONTH + get_chalakim(1 + 6, 779),
              leap_left)

years_from_3744(years) ==
    months_from_3744(years * 12 + (years * 7 + 1) \div 19,
                     (years * 7 + 1) % 19)

\* Number of days from 3 Tishrei 3744 to 1 Tishrei of hebrew_year: the molad
\* of the year, moved by the postponement rules.
days_from_3744(hebrew_year) == years_from_3744(hebrew_year - 3744)

get_size_of_hebrew_year(hebrew_year) ==
    days_from_3744(hebrew_year + 1) - days_from_3744(hebrew_year)

\* The length of a month in a year of the given size; 0 for a month the year
\* does not have (13 and 14, Adar I and Adar II, only in leap years; 6, Adar,
\* only in the others).
month_length(month, size) ==
    CASE month = 2 -> IF size % 10 > 4 THEN 30 ELSE 29
      [] month = 3 -> IF size % 10 < 4 THEN 29 ELSE 30
      [] month = 6 -> IF size > 365 THEN 0 ELSE 29
      [] month = 13 -> IF size > 365 THEN 30 ELSE 0
      [] month = 14 -> IF size > 365 THEN 29 ELSE 0
      [] month \in {1, 5, 7, 9, 11} -> 30
      [] month \in {4, 8, 10, 12} -> 29
      [] OTHER -> 0

days_in_month(month, year) ==
    month_length(month, get_size_of_hebrew_year(year))

\* The structural bounds of a Hebrew date.
valid_hdate(day, month, year) ==
    /\ month \in 1..14
    /\ day \in 1..30
    /\ day <= days_in_month(month, year)

\* The corrections of a day count for the year's long Heshvan, short Kislev
\* and leap month.
year_corrections(day, month, length_of_year) ==
    day + (IF length_of_year % 10 > 4 /\ month > 2 THEN 1 ELSE 0)
        - (IF length_of_year % 10 < 4 /\ month > 3 THEN 1 ELSE 0)
        + (IF length_of_year > 365 /\ month > 6 THEN 30 ELSE 0)

hdate_to_jdn_days_of(day, month, year) ==
    year_corrections(days_from_3744(year) + (59 * (month - 1) + 1) \div 2 + day,
                     month, get_size_of_hebrew_year(year)) + 1715118

\* The day count of hdate_to_jdn, for a date within the structural bounds.
\* Adar I counts as month 6, Adar II as month 6 plus 30 days.
hdate_to_jdn_days(day, month, year) ==
    CASE month = 13 -> hdate_to_jdn_days_of(day, 6, year)
      [] month = 14 -> hdate_to_jdn_days_of(day + 30, 6, year)
      [] OTHER -> hdate_to_jdn_days_of(day, month, year)

\* hdate_to_jdn: [raised, jdn]; a date outside the structural bounds fails.
hdate_to_jdn(day, month, year) ==
    IF valid_hdate(day, month, year)
    THEN [raised |-> "", jdn |-> hdate_to_jdn_days(day, month, year)]
    ELSE [raised |-> "InvalidHebrewDate", jdn |-> 0]

(***************************************************************************)
(* hdate.hdate_julian: the civil calendar                                  *)
(***************************************************************************)
gdate_jdn(day, y, m) ==
    day + (153 * m + 2) \div 5 + 365 * y
    + (y \div 4 - y \div 100 + y \div 400) - 32045

gdate_to_jdn_of(date, a) ==
    gdate_jdn(date.day, date.year + 4800 - a, date.month + 12 * a - 3)

gdate_to_jdn(date) == gdate_to_jdn_of(date, (14 - date.month) \div 12)

\* The steps of jdn_to_gdate, each taking the values computed so far.
jdn_to_gdate_5(l2, j, n, i) ==
    <<l2 - (2447 * j) \div 80, j + 2 - 12 * (j \div 11),
      100 * (n - 49) + i + j \div 11>>

jdn_to_gdate_4(l2, n, i) == jdn_to_gdate_5(l2, (80 * l2) \div 2447, n, i)

jdn_to_gdate_3(l1, n, i) == jdn_to_gdate_4(l1 - (1461 * i) \div 4 + 31, n, i)

jdn_to_gdate_2(l1, n) == jdn_to_gdate_3(l1, n, (4000 * (l1 + 1)) \div 1461001)

jdn_to_gdate_1(l0, n) == jdn_to_gdate_2(l0 - (146097 * n + 3) \div 4, n)

jdn_to_gdate_0(l0) == jdn_to_gdate_1(l0, (4 * l0) \div 146097)

\* <<day, month, year>>
jdn_to_gdate(jdn) == jdn_to_gdate_0(jdn + 68569)

\* A day of the last eight months of the year, which always have 236 days.
hdate_late(days, month, size_of_year, year) ==
    <<days - (month * 59 + 1) \div 2 + 1,
      IF size_of_year > 355 /\ month + 4 + 1 <= 6
      THEN month + 4 + 1 + 8 ELSE month + 4 + 1,
      year>>

\* A day of the first four or five months: <<day, month, year>> from the
\* month counted from 0 and the day's offset within it.
hdate_early(days, month, offset, year) ==
    <<days - (month * 59 + 1) \div 2 + offset, month + 1, year>>

\* days: the days into the year, 0 on 1 Tishrei.
hdate_of_days(days, size_of_year, year) ==
    IF days >= size_of_year - 236
    THEN hdate_late(days - (size_of_year - 236),
                    ((days - (size_of_year - 236)) * 2) \div 59,
                    size_of_year, year)
    ELSE CASE size_of_year % 10 > 4 /\ days = 59 -> <<30, 2, year>>
           [] size_of_year % 10 > 4 /\ days > 59 ->
                hdate_early(days, ((days - 1) * 2) \div 59, 0, year)
           [] size_of_year % 10 < 4 /\ days > 87 ->
                hdate_early(days, ((days + 1) * 2) \div 59, 2, year)
           [] OTHER -> hdate_early(days, (days * 2) \div 59, 1, year)

hdate_in_year(jdn, year) ==
    hdate_of_days(jdn - hdate_to_jdn_days(1, 1, year),
                  get_size_of_hebrew_year(year), year)

\* The guessed year, corrected when it was underestimated.
hebrew_year_of(jdn, year) ==
    IF hdate_to_jdn_days(1, 1, year + 1) <= jdn THEN year + 1 ELSE year

\* <<day, month, year>>
jdn_to_hdate(jdn) ==
    hdate_in_year(jdn, hebrew_year_of(jdn, jdn_to_gdate(jdn)[3] + 3760))

(***************************************************************************)
(* datetime.date and hdate.common.set_date                                 *)
(***************************************************************************)
Date(year, month, day) == [year |-> year, month |-> month, day |-> day]

is_gregorian_leap(year) ==
    year % 4 = 0 /\ (year % 100 # 0 \/ year % 400 = 0)

gregorian_days_in_month(year, month) ==
    CASE month = 2 -> IF is_gregorian_leap(year) THEN 29 ELSE 28
      [] month \in {4, 6, 9, 11} -> 30
      [] OTHER -> 31

\* datetime.date(year, month, day): ValueError outside 1..9999, 1..12 and
\* the month's days.
datetime_date(year, month, day) ==
    IF /\ year \in 1..9999
       /\ month \in 1..12
       /\ day >= 1
       /\ day <= gregorian_days_in_month(year, month)
    THEN [raised |-> "", date |-> Date(year, month, day)]
    ELSE [raised |-> "ValueError", date |-> NoValue]

days_before(y) == y * 365 + y \div 4 - y \div 100 + y \div 400

days_before_year(year) == days_before(year - 1)

RECURSIVE days_before_month(_, _)
days_before_month(year, month) ==
    IF month = 1 THEN 0
    ELSE days_before_month(year, month - 1)
         + gregorian_days_in_month(year, month - 1)

\* datetime.date.weekday(): Monday is 0, Sunday is 6.
weekday(date) ==
    (days_before_year(date.year) + days_before_month(date.year, date.month)
     + date.day + 6) % 7

\* The values handed to the gdate setter: a date, None, or anything else.
DateValue(date) == [kind |-> "date", date |-> date]
NoneValue == [kind |-> "None"]
OtherValue == [kind |-> "int"]

\* set_date(value): None is today, a value that is no date is a TypeError.
set_date(value, today) ==
    CASE value.kind = "None" -> [raised |-> "", date |-> today]
      [] value.kind = "date" -> [raised |-> "", date |-> value.date]
      [] OTHER -> [raised |-> "TypeError", date |-> NoValue]

(***************************************************************************)
(* class HDate: construction and the operations that move it               *)
(***************************************************************************)
\* HDate.jdn
jdn(obj) == gdate_to_jdn(obj.gdate)

\* Every operation yields [raised, self]: the exception it ends with ("" when
\* it returns) and the object it leaves.
Returned(obj) == [raised |-> "", self |-> obj]
Raised(exc, obj) == [raised |-> exc, self |-> obj]

\* (self.h_day, self.h_month, self.h_year) = hj.jdn_to_hdate(self.jdn)
set_hebrew(obj, h) ==
    [obj EXCEPT !.h_day = h[1], !.h_month = h[2], !.h_year = h[3]]

refresh_hebrew(obj) == set_hebrew(obj, jdn_to_hdate(jdn(obj)))

\* A faulty gdate setter: it stores the date and leaves the Hebrew triple.
gdate_assign_date_only(obj, r) ==
    IF r.raised # ""
    THEN Raised(r.raised, obj)
    ELSE Returned([obj EXCEPT !.gdate = r.date])

\* HDate.gdate setter: self._gdate = set_date(value), then the Hebrew triple
\* from the new date's jdn.
gdate_assign(obj, r) ==
    IF r.raised # ""
    THEN Raised(r.raised, obj)
    ELSE Returned(refresh_hebrew([obj EXCEPT !.gdate = r.date]))

gdate_setter(obj, value, today) == gdate_assign(obj, set_date(value, today))

\* HDate.hdate_set_jdn
hdate_set_jdn_date(obj, d, today) ==
    IF d.raised # ""
    THEN Raised(d.raised, obj)
    ELSE gdate_setter(obj, DateValue(d.date), today)

\* A faulty hdate_set_jdn: datetime.date(gyear, gday, gmonth).
hdate_set_jdn_month_day(obj, g, today) ==
    hdate_set_jdn_date(obj, datetime_date(g[3], g[1], g[2]), today)

hdate_set_jdn_gdate(obj, g, today) ==
    hdate_set_jdn_date(obj, datetime_date(g[3], g[2], g[1]), today)

hdate_set_jdn(obj, j, today) == hdate_set_jdn_gdate(obj, jdn_to_gdate(j), today)

\* HDate.hdate_set_hdate
hdate_set_hdate_jdn(obj, r, today) ==
    IF r.raised # ""
    THEN Raised(r.raised, obj)
    ELSE hdate_set_jdn(obj, r.jdn, today)

\* A faulty hdate_set_hdate: after its sanity check it takes the day count
\* of the date, whether or not the month has that day.
hdate_set_hdate_day_count(obj, day, month, year, today) ==
    IF ~(0 < month /\ month < 15) THEN Raised("ValueError", obj)
    ELSE IF ~(0 < day /\ day < 31) THEN Raised("ValueError", obj)
    ELSE hdate_set_jdn(obj, hdate_to_jdn_days(day, month, year), today)

hdate_set_hdate(obj, day, month, year, today) ==
    IF ~(0 < month /\ month < 15) THEN Raised("ValueError", obj)
    ELSE IF ~(0 < day /\ day < 31) THEN Raised("ValueError", obj)
    ELSE hdate_set_hdate_jdn(obj, hdate_to_jdn(day, month, year), today)

\* HDate.__init__: the fields, then the gdate setter. The object exists only
\* if the setter returns.
HDate(date_value, diaspora_flag, today) ==
    LET obj0 == [gdate |-> NoValue, h_day |-> 0, h_month |-> 0, h_year |-> 0,
                 diaspora |-> diaspora_flag]
    IN  gdate_setter(obj0, date_value, today)

(***************************************************************************)
(* hdate.htables.HOLIDAYS                                                  *)
(*                                                                         *)
(* A rule: its id, its type, the days and the months of its date (the      *)
(* candidate dates are their product), its region ("", "ISRAEL" or         *)
(* "DIASPORA") and its list of predicates over the HDate.  The ids, types, *)
(* dates and first years are those tests/test_hdate.py expects.            *)
(***************************************************************************)
HOLIDAY(index, type, days, months, israel_diaspora, date_functions_list) ==
    [index |-> index, type |-> type, days |-> days, months |-> months,
     israel_diaspora |-> israel_diaspora,
     date_functions_list |-> date_functions_list]

\* The predicates of the rules, as data: evaluated by holiday_function.
\* The day is `original` and not on dow_not_orig, or it is `replacement`
\* and on dow_replacement.
move_if_not_on_dow(original, replacement, dow_not_orig, dow_replacement) ==
    [kind |-> "move_if_not_on_dow",
     args |-> <<original, replacement, dow_not_orig, dow_replacement>>]
year_from(year) == [kind |-> "year_from", args |-> <<year>>]
year_until(year) == [kind |-> "year_until", args |-> <<year>>]
short_kislev_year == [kind |-> "short_kislev", args |-> <<>>]
\* The day, with the weekdays it is kept on.
day_on_dow(pairs) == [kind |-> "day_on_dow", args |-> pairs]

HOLIDAYS == <<
    HOLIDAY(0, 0, {}, {}, "", <<>>),
    HOLIDAY(1, 1, {1}, {1}, "", <<>>),
    HOLIDAY(2, 1, {2}, {1}, "", <<>>),
    HOLIDAY(3, 5, {3, 4}, {1}, "", <<move_if_not_on_dow(3, 4, 7, 1)>>),
    HOLIDAY(37, 2, {9}, {1}, "", <<>>),
    HOLIDAY(4, 1, {10}, {1}, "", <<>>),
    HOLIDAY(5, 1, {15}, {1}, "", <<>>),
    HOLIDAY(31, 1, {16}, {1}, "DIASPORA", <<>>),
    HOLIDAY(6, 3, {16}, {1}, "ISRAEL", <<>>),
    HOLIDAY(6, 3, {17, 18, 19, 20}, {1}, "", <<>>),
    HOLIDAY(7, 3, {21}, {1}, "", <<>>),
    HOLIDAY(27, 1, {22}, {1}, "", <<>>),
    HOLIDAY(8, 1, {23}, {1}, "DIASPORA", <<>>),
    HOLIDAY(35, 9, {11, 12}, {2}, "ISRAEL",
            <<year_from(5758), move_if_not_on_dow(12, 11, 6, 5)>>),
    HOLIDAY(9, 4, {25, 26, 27, 28, 29, 30}, {3}, "", <<>>),
    HOLIDAY(9, 4, {1, 2}, {4}, "", <<>>),
    HOLIDAY(9, 4, {3}, {4}, "", <<short_kislev_year>>),
    HOLIDAY(10, 5, {10}, {4}, "", <<>>),
    HOLIDAY(11, 7, {15}, {5}, "", <<>>),
    HOLIDAY(33, 9, {30}, {5}, "ISRAEL", <<>>),
    HOLIDAY(34, 9, {7}, {6, 14}, "ISRAEL", <<year_from(5709)>>),
    HOLIDAY(12, 5, {11, 13}, {6, 14}, "",
            <<move_if_not_on_dow(13, 11, 7, 5)>>),
    HOLIDAY(13, 4, {14}, {6, 14}, "", <<>>),
    HOLIDAY(14, 4, {15}, {6, 14}, "", <<>>),
    HOLIDAY(15, 1, {15}, {7}, "", <<>>),
    HOLIDAY(32, 1, {16}, {7}, "DIASPORA", <<>>),
    HOLIDAY(16, 3, {16}, {7}, "ISRAEL", <<>>),
    HOLIDAY(16, 3, {17, 18, 19, 20}, {7}, "", <<>>),
    HOLIDAY(28, 1, {21}, {7}, "", <<>>),
    HOLIDAY(29, 1, {22}, {7}, "DIASPORA", <<>>),
    HOLIDAY(24, 8, {26, 27, 28}, {7}, "",
            <<year_from(5718),
              day_on_dow({<<26, {5}>>, <<27, {2, 3, 4, 5, 7}>>,
                          <<28, {2}>>})>>),
    HOLIDAY(25, 8, {2, 3, 4}, {8}, "",
            <<year_from(5709), year_until(5763),
              day_on_dow({<<2, {4}>>, <<3, {4}>>,
                          <<4, {1, 2, 3, 4, 7}>>})>>),
    HOLIDAY(25, 8, {2, 3, 4, 5}, {8}, "",
            <<year_from(5764),
              day_on_dow({<<2, {4}>>, <<3, {4}>>, <<4, {2, 3, 4, 7}>>,
                          <<5, {2}>>})>>),
    HOLIDAY(17, 6, {3, 4, 5}, {8}, "",
            <<year_from(5709), year_until(5763),
              day_on_dow({<<3, {5}>>, <<4, {5}>>,
                          <<5, {1, 2, 3, 4, 5}>>})>>),
    HOLIDAY(17, 6, {3, 4, 5, 6}, {8}, "",
            <<year_from(5764),
              day_on_dow({<<3, {5}>>, <<4, {5}>>, <<5, {1, 3, 4, 5}>>,
                          <<6, {3}>>})>>),
    HOLIDAY(18, 7, {18}, {8}, "", <<>>),
    HOLIDAY(26, 6, {28}, {8}, "", <<year_from(5728)>>),
    HOLIDAY(19, 2, {5}, {9}, "", <<>>),
    HOLIDAY(20, 1, {6}, {9}, "", <<>>),
    HOLIDAY(30, 1, {7}, {9}, "DIASPORA", <<>>),
    HOLIDAY(21, 5, {17, 18}, {10}, "", <<move_if_not_on_dow(17, 18, 7, 1)>>),
    HOLIDAY(36, 9, {29}, {10}, "ISRAEL",
            <<year_from(5765), day_on_dow({<<29, {1, 2, 3, 4, 5, 6}>>})>>),
    HOLIDAY(36, 9, {1}, {11}, "ISRAEL",
            <<year_from(5765), day_on_dow({<<1, {1}>>})>>),
    HOLIDAY(22, 5, {9, 10}, {11}, "", <<move_if_not_on_dow(9, 10, 7, 1)>>),
    HOLIDAY(23, 7, {15}, {11}, "", <<>>)
>>

(***************************************************************************)
(* class HDate: the queries                                                *)
(***************************************************************************)
\* A faulty dow: Sunday is not brought back to 1.
dow_sunday_after_saturday(obj) == weekday(obj.gdate) + 2

\* HDate.dow
dow(obj) ==
    IF weekday(obj.gdate) # 6 THEN weekday(obj.gdate) + 2 ELSE 1

\* A faulty year_size: the size of the following year.
year_size_of_next_year(obj) == get_size_of_hebrew_year(obj.h_year + 1)

\* HDate.year_size
year_size(obj) == get_size_of_hebrew_year(obj.h_year)

\* HDate.short_kislev
short_kislev(obj) == year_size(obj) \in {353, 383}

\* HDate.rosh_hashana_dow
rosh_hashana_dow(obj) == ((hdate_to_jdn(1, 1, obj.h_year).jdn + 1) % 7) + 1

\* HDate.pesach_dow
pesach_dow(obj) == ((hdate_to_jdn(15, 7, obj.h_year).jdn + 1) % 7) + 1

\* A faulty range check of get_omer_day: 49 is left out.
omer_day_below_49(omer_day) ==
    IF ~(0 < omer_day /\ omer_day < 49) THEN 0 ELSE omer_day

\* HDate.get_omer_day
omer_day_in_range(omer_day) ==
    IF ~(0 < omer_day /\ omer_day < 50) THEN 0 ELSE omer_day

get_omer_day(obj) ==
    omer_day_in_range(jdn(obj) - hdate_to_jdn(16, 7, obj.h_year).jdn + 1)

(***************************************************************************)
(* HDate.get_reading                                                       *)
(***************************************************************************)
\* The year types: rosh_hashana_dow * 100 + (year_size % 10 - 3) * 10
\* + pesach_dow of the fourteen kinds of year, in Israel and, plus 1000, in
\* the Diaspora.
YEAR_TYPES ==
    {d + k : d \in {0, 1000},
             k \in {203, 225, 315, 517, 521, 701, 723,
                    205, 227, 317, 501, 523, 703, 725}}

\* hdate.htables.READINGS, flattened: for every year type the list of its
\* readings, one for each week of the year from 0.  A reading is written
\* by its place, year type * 100 + week: the ids of the table are not part
\* of the model.
READINGS ==
    [year_type \in YEAR_TYPES |-> [i \in 1..56 |-> year_type * 100 + i - 1]]

\* the readings of the entries of READINGS that name the year type
readings(year_type) ==
    IF year_type \in DOMAIN READINGS THEN READINGS[year_type] ELSE <<>>

\* year_type
year_type(obj) ==
    (IF obj.diaspora THEN 1 ELSE 0) * 1000
    + rosh_hashana_dow(obj) * 100
    + ((year_size(obj) % 10) - 3) * 10
    + pesach_dow(obj)

\* days: the number of days since rosh hashana
reading_days(obj) == jdn(obj) - hdate_to_jdn(1, 1, obj.h_year).jdn

\* Faulty weeks: the weekday of rosh hashana counted from 0.
reading_weeks_from_0(days, obj) == (days + rosh_hashana_dow(obj)) \div 7

\* weeks: the number of weeks since rosh hashana
reading_weeks(days, obj) == (days + rosh_hashana_dow(obj) - 1) \div 7

\* The outcomes of get_reading: [raised, table, reading], table whether
\* the readings of the year type were looked up.
\* return readings[weeks]
get_reading_table(list, weeks) ==
    IF weeks + 1 \in DOMAIN list
    THEN [raised |-> "", table |-> TRUE, reading |-> list[weeks + 1]]
    ELSE [raised |-> "IndexError", table |-> TRUE, reading |-> NoValue]

\* if weeks == 3 ...; if weeks == 4 and days == 22 and self.diaspora
get_reading_weeks(obj, days, weeks) ==
    IF /\ weeks = 3
       /\ \/ (days <= 22 /\ obj.diaspora /\ dow(obj) # 7)
          \/ (days <= 21 /\ ~obj.diaspora)
    THEN [raised |-> "", table |-> FALSE, reading |-> 54]
    ELSE IF weeks = 4 /\ days = 22 /\ obj.diaspora
         THEN [raised |-> "", table |-> FALSE, reading |-> 54]
         ELSE get_reading_table(readings(year_type(obj)), weeks)

get_reading_days(obj, days) ==
    get_reading_weeks(obj, days, reading_weeks(days, obj))

get_reading(obj) == get_reading_days(obj, reading_days(obj))

\* func(self), for a predicate of a rule
holiday_function(func, obj) ==
    CASE func.kind = "move_if_not_on_dow" ->
           \/ (obj.h_day = func.args[1] /\ dow(obj) # func.args[3])
           \/ (obj.h_day = func.args[2] /\ dow(obj) = func.args[4])
      [] func.kind = "year_from" -> obj.h_year >= func.args[1]
      [] func.kind = "year_until" -> obj.h_year <= func.args[1]
      [] func.kind = "short_kislev" -> short_kislev(obj)
      [] func.kind = "day_on_dow" ->
           \E p \in func.args : obj.h_day = p[1] /\ dow(obj) \in p[2]

\* HDate._holiday_entry, its three filters
holiday_on_date(holyday, obj) ==
    obj.h_day \in holyday.days /\ obj.h_month \in holyday.months

\* A faulty region filter: every rule passes.
holiday_in_every_region(holyday, obj) == TRUE

holiday_in_region(holyday, obj) ==
    \/ holyday.israel_diaspora = ""
    \/ (holyday.israel_diaspora = "ISRAEL" /\ ~obj.diaspora)
    \/ (holyday.israel_diaspora = "DIASPORA" /\ obj.diaspora)

holiday_functions_hold(holyday, obj) ==
    \A i \in DOMAIN holyday.date_functions_list :
        holiday_function(holyday.date_functions_list[i], obj)

holydays_list(obj) ==
    SelectSeq(
        SelectSeq(
            SelectSeq(HOLIDAYS, LAMBDA holyday : holiday_on_date(holyday, obj)),
            LAMBDA holyday : holiday_in_region(holyday, obj)),
        LAMBDA holyday : holiday_functions_hold(holyday, obj))

\* HDate._holiday_entry: [raised, left, entry], left the number of rules the
\* filters leave.
holiday_entry_of(list) ==
    IF ~(Len(list) <= 1)
    THEN [raised |-> "AssertionError", left |-> Len(list), entry |-> NoValue]
    ELSE [raised |-> "", left |-> Len(list),
          entry |-> IF Len(list) > 0 THEN list[1] ELSE HOLIDAYS[1]]

holiday_entry(obj) == holiday_entry_of(holydays_list(obj))

(***************************************************************************)
(* hebrew_number.  A string is the sequence of its characters; a Hebrew    *)
(* letter is written by its name.                                          *)
(***************************************************************************)
\* hdate.htables.DIGITS: the ones (from 1), the tens (entry 0 is the 9 of
\* 15 and 16) and the hundreds (from 1).
DIGITS == <<
    <<" ", "alef", "bet", "gimel", "dalet", "he", "vav", "zayin", "het",
      "tet">>,
    <<"tet", "yod", "kaf", "lamed", "mem", "nun", "samekh", "ayin", "pe",
      "tsadi">>,
    <<" ", "qof", "resh", "shin", "tav">> >>

\* htables.DIGITS[table][index], both counted from 0
digit(table, index) == DIGITS[table + 1][index + 1]

DecimalDigits == <<"0", "1", "2", "3", "4", "5", "6", "7", "8", "9">>

RECURSIVE natural_str(_)
natural_str(num) ==
    IF num < 10 THEN <<DecimalDigits[num + 1]>>
    ELSE Append(natural_str(num \div 10), DecimalDigits[(num % 10) + 1])

\* str(num)
str(num) == IF num < 0 THEN <<"-">> \o natural_str(0 - num) ELSE natural_str(num)

\* if not short: the geresh after a string of fewer than two characters,
\* else the gershayim before the last character
hebrew_number_punctuation(hstring, short) ==
    IF ~short
    THEN IF Len(hstring) < 2
         THEN hstring \o <<"'">>
         ELSE SubSeq(hstring, 1, Len(hstring) - 1)
              \o <<"\"">> \o <<hstring[Len(hstring)]>>
    ELSE hstring

\* if num > 0
hebrew_number_ones(hstring, num, short) ==
    IF num > 0
    THEN hebrew_number_punctuation(hstring \o <<digit(0, num)>>, short)
    ELSE hebrew_number_punctuation(hstring, short)

\* the tens letter of num, already lowered by 9 when it was 15 or 16
hebrew_number_tens_letter(hstring, num, short) ==
    hebrew_number_ones(hstring \o <<digit(1, num \div 10)>>, num % 10, short)

\* Faulty tens: 15 and 16 are not special.
hebrew_number_tens_plain(hstring, num, short) ==
    IF num >= 10
    THEN hebrew_number_tens_letter(hstring, num, short)
    ELSE hebrew_number_ones(hstring, num, short)

\* if num >= 10
hebrew_number_tens(hstring, num, short) ==
    IF num >= 10
    THEN hebrew_number_tens_letter(
             hstring, IF num \in {15, 16} THEN num - 9 ELSE num, short)
    ELSE hebrew_number_ones(hstring, num, short)

\* if num >= 100
hebrew_number_hundreds(hstring, num, short) ==
    IF num >= 100
    THEN hebrew_number_tens(hstring \o <<digit(2, num \div 100)>>, num % 100,
                            short)
    ELSE hebrew_number_tens(hstring, num, short)

\* while num >= 400
RECURSIVE hebrew_number_400(_, _, _)
hebrew_number_400(hstring, num, short) ==
    IF num >= 400
    THEN hebrew_number_400(hstring \o <<digit(2, 4)>>, num - 400, short)
    ELSE hebrew_number_hundreds(hstring, num, short)

\* if num >= 1000
hebrew_number_thousands(num, short) ==
    IF num >= 1000
    THEN hebrew_number_400(<<digit(0, num \div 1000)>> \o <<"'", " ">>,
                           num % 1000, short)
    ELSE hebrew_number_400(<<>>, num, short)

\* A faulty hebrew_number: the range check comes first.
hebrew_number_range_first(num, hebrew, short) ==
    IF ~(0 <= num /\ num < 10000)
    THEN [raised |-> "ValueError", ret |-> NoValue]
    ELSE IF ~hebrew THEN [raised |-> "", ret |-> str(num)]
         ELSE [raised |-> "", ret |-> hebrew_number_thousands(num, short)]

\* hebrew_number(num, hebrew, short): [raised, ret]
hebrew_number(num, hebrew, short) ==
    IF ~hebrew THEN [raised |-> "", ret |-> str(num)]
    ELSE IF ~(0 <= num /\ num < 10000)
         THEN [raised |-> "ValueError", ret |-> NoValue]
         ELSE [raised |-> "", ret |-> hebrew_number_thousands(num, short)]

(***************************************************************************)
(* get_omer_string.  A string is the sequence of its words, spaces and the *)
(* prefix ve ("and"); the words are transliterated.                        *)
(***************************************************************************)
tens == << <<>>, <<"asara">>, <<"esrim">>, <<"shloshim">>, <<"arbaim">> >>
ones == << <<>>, <<"ehad">>, <<"shnayim">>, <<"shlosha">>, <<"arbaa">>,
           <<"hamisha">>, <<"shisha">>, <<"shiva">>, <<"shmona">>,
           <<"tisha">> >>

\* if days
omer_string_days(omer_string, days) ==
    IF days # 0
    THEN IF days > 2
         THEN omer_string \o <<"ve">> \o ones[days + 1] \o <<" ", "yamim", " ">>
         ELSE IF days = 1
              THEN omer_string \o <<"ve">> \o <<"yom", " ", "ehad", " ">>
              ELSE omer_string \o <<"ve">> \o <<"shnei", " ", "yamim", " ">>
    ELSE omer_string

\* Faulty weeks: two weeks are counted like three and more.
omer_string_weeks_no_dual(omer_string, weeks, days) ==
    IF weeks >= 2
    THEN omer_string_days(
             omer_string \o ones[weeks + 1] \o <<" ", "shavuot", " ">>, days)
    ELSE omer_string_days(
             omer_string \o <<"shavua", " ", "ehad", " ">>, days)

\* if weeks > 2 ... elif weeks == 1 ... else
omer_string_weeks(omer_string, weeks, days) ==
    IF weeks > 2
    THEN omer_string_days(
             omer_string \o ones[weeks + 1] \o <<" ", "shavuot", " ">>, days)
    ELSE IF weeks = 1
         THEN omer_string_days(
                  omer_string \o <<"shavua", " ", "ehad", " ">>, days)
         ELSE omer_string_days(
                  omer_string \o <<"shnei", " ", "shavuot", " ">>, days)

\* if omer > 6, and the closing word
omer_string_weeks_clause(omer_string, omer) ==
    IF omer > 6
    THEN omer_string_weeks(omer_string \o <<"shehem", " ">>,
                           omer \div 7, omer % 7) \o <<"laomer">>
    ELSE omer_string \o <<"laomer">>

\* if omer > 2: the tens word
omer_string_tens(omer_string, omer, ten) ==
    IF omer > 20 \/ omer \in {10, 20}
    THEN omer_string \o tens[ten + 1]
    ELSE omer_string

\* if omer > 2 ... elif omer == 1 ... else
omer_string_count(omer_string, omer, ten, one) ==
    IF omer > 2
    THEN IF omer < 11
         THEN omer_string_tens(omer_string, omer, ten)
              \o ones[one + 1] \o <<" ", "yamim", " ">>
         ELSE omer_string_tens(omer_string, omer, ten) \o <<" ", "yom", " ">>
    ELSE IF omer = 1
         THEN omer_string \o <<"yom", " ", "ehad", " ">>
         ELSE omer_string \o <<"shnei", " ", "yamim", " ">>

\* if 10 < omer < 20 ... elif omer > 9
omer_string_ones(omer_string, omer, ten, one) ==
    IF 10 < omer /\ omer < 20
    THEN omer_string_count(omer_string \o ones[one + 1] \o <<" ", "asar">>,
                           omer, ten, one)
    ELSE IF omer > 9
         THEN omer_string_count(
                  omer_string \o ones[one + 1]
                  \o (IF one # 0 THEN <<" ", "ve">> ELSE <<>>),
                  omer, ten, one)
         ELSE omer_string_count(omer_string, omer, ten, one)

\* get_omer_string(omer): [raised, ret]
get_omer_string(omer) ==
    IF ~(0 < omer /\ omer < 50)
    THEN [raised |-> "ValueError", ret |-> NoValue]
    ELSE [raised |-> "",
          ret |-> omer_string_weeks_clause(
                      omer_string_ones(<<"hayom", " ">>, omer, omer \div 10,
                                       omer % 10),
                      omer)]

(***************************************************************************)
(* The dates and arguments of the model                                    *)
(***************************************************************************)
Years == FirstYear .. (FirstYear + NumYears - 1)
FirstJdn == hdate_to_jdn_days(1, 1, FirstYear)
LastJdn == hdate_to_jdn_days(1, 1, FirstYear + NumYears) - 1
Jdns == FirstJdn .. LastJdn

DateOfTriple(g) == Date(g[3], g[2], g[1])
DateOfJdn(j) == DateOfTriple(jdn_to_gdate(j))

\* the dates handed to the operations that take one: every Stride-th day
SampledJdns == {j \in Jdns : j % Stride = 0}
\* a jdn datetime.date cannot hold (its year is before 1)
BadJdn == 0
GdateValues ==
    {DateValue(DateOfJdn(j)) : j \in SampledJdns} \cup {NoneValue, OtherValue}
Todays == {DateOfJdn(FirstJdn + TodayOffset)}

Days == 0 .. 31
Months == 0 .. 15
SampledDays == {0, 1, 15, 29, 30, 31}

Call(name) == [name |-> name]

\* The objects a constructor call leaves: HDate(value, diaspora) for the
\* values it returns on.
Constructed(values) ==
    {r.self : r \in {c \in {HDate(v, d, t) : v \in values, d \in BOOLEAN,
                                             t \in Todays} : c.raised = ""}}

(***************************************************************************)
(* Spec: an HDate moved by any sequence of its operations                  *)
(***************************************************************************)
Init ==
    /\ self \in Constructed(GdateValues)
    /\ op = Call("__init__")
    /\ raised = ""
    /\ ret = NoValue

Outcome(call, r) ==
    /\ self' = r.self
    /\ op' = call
    /\ raised' = r.raised
    /\ ret' = NoValue

SetGdate ==
    \E value \in GdateValues, today \in Todays :
        Outcome(Call("gdate"), gdate_setter(self, value, today))

HdateSetJdn ==
    \E j \in SampledJdns \cup {BadJdn}, today \in Todays :
        Outcome(Call("hdate_set_jdn"), hdate_set_jdn(self, j, today))

HdateSetHdate ==
    \E day \in SampledDays, month \in Months, year \in Years, today \in Todays :
        Outcome(Call("hdate_set_hdate"),
                hdate_set_hdate(self, day, month, year, today))

SetDiaspora ==
    \E d \in BOOLEAN :
        Outcome(Call("diaspora"), Returned([self EXCEPT !.diaspora = d]))

Next ==
    \/ SetGdate
    \/ HdateSetJdn
    \/ HdateSetHdate
    \/ SetDiaspora

Spec == Init /\ [][Next]_vars

(***************************************************************************)
(* SpecSetHdate: one call of hdate_set_hdate on a fresh HDate(), for every *)
(* day, month and year of the ranges; op keeps the arguments               *)
(***************************************************************************)
InitSetHdate ==
    /\ self \in Constructed({NoneValue})
    /\ op = Call("__init__")
    /\ raised = ""
    /\ ret = NoValue

CallSetHdate ==
    /\ op.name = "__init__"
    /\ \E day \in Days, month \in Months, year \in Years, today \in Todays :
         Outcome([name |-> "hdate_set_hdate", day |-> day, month |-> month,
                  year |-> year],
                 hdate_set_hdate(self, day, month, year, today))

NextSetHdate == CallSetHdate

SpecSetHdate == InitSetHdate /\ [][NextSetHdate]_vars

(***************************************************************************)
(* SpecQuery: the queries of an HDate built on any date of the query years *)
(***************************************************************************)
QueryFirstJdn == hdate_to_jdn_days(1, 1, QueryFirstYear)
QueryLastJdn == hdate_to_jdn_days(1, 1, QueryFirstYear + QueryNumYears) - 1
QueryJdns == QueryFirstJdn .. QueryLastJdn

InitQuery ==
    /\ \E j \in QueryJdns, d \in BOOLEAN :
         self = HDate(DateValue(DateOfJdn(j)), d, DateOfJdn(j)).self
    /\ op = Call("__init__")
    /\ raised = ""
    /\ ret = NoValue

Answer(name, exc, value) ==
    /\ op' = Call(name)
    /\ raised' = exc
    /\ ret' = value
    /\ UNCHANGED self

QueryHolidayEntry ==
    Answer("_holiday_entry", holiday_entry(self).raised, holiday_entry(self))

QueryOmerDay == Answer("get_omer_day", "", get_omer_day(self))

QueryYearSize == Answer("year_size", "", year_size(self))

NextQuery ==
    \/ QueryHolidayEntry
    \/ QueryOmerDay
    \/ QueryYearSize

SpecQuery == InitQuery /\ [][NextQuery]_vars

(***************************************************************************)
(* SpecWeekday: the weekday queries of an HDate built on any date of the   *)
(* query years                                                             *)
(***************************************************************************)
QueryDow == Answer("dow", "", dow(self))

QueryRoshHashanaDow == Answer("rosh_hashana_dow", "", rosh_hashana_dow(self))

QueryPesachDow == Answer("pesach_dow", "", pesach_dow(self))

NextWeekday ==
    \/ QueryDow
    \/ QueryRoshHashanaDow
    \/ QueryPesachDow

SpecWeekday == InitQuery /\ [][NextWeekday]_vars

(***************************************************************************)
(* SpecReading: get_reading of an HDate built on any date of the query     *)
(* years                                                                   *)
(***************************************************************************)
QueryReading ==
    Answer("get_reading", get_reading(self).raised, get_reading(self))

SpecReading == InitQuery /\ [][QueryReading]_vars

(***************************************************************************)
(* SpecFormat: one call of hebrew_number or of get_omer_string, for every  *)
(* argument of the range; op keeps the arguments                           *)
(***************************************************************************)
Nums == (0 - Margin) .. (9999 + Margin)

InitFormat ==
    /\ self = NoValue
    /\ \E num \in Nums, hebrew \in BOOLEAN, short \in BOOLEAN :
         op = [name |-> "input", num |-> num, hebrew |-> hebrew,
               short |-> short]
    /\ raised = ""
    /\ ret = NoValue

Formatted(name, r) ==
    /\ op.name = "input"
    /\ op' = [op EXCEPT !.name = name]
    /\ raised' = r.raised
    /\ ret' = r.ret
    /\ UNCHANGED self

CallHebrewNumber ==
    Formatted("hebrew_number", hebrew_number(op.num, op.hebrew, op.short))

CallGetOmerString == Formatted("get_omer_string", get_omer_string(op.num))

NextFormat ==
    \/ CallHebrewNumber
    \/ CallGetOmerString

SpecFormat == InitFormat /\ [][NextFormat]_vars

(***************************************************************************)
(* The reference table of tests/test_hdate.py:                             *)
(* <<year, weekday of Rosh Hashana, length, weekday of Pesach>>            *)
(***************************************************************************)
HEBREW_YEARS_INFO == {
    <<5753, 2, 353, 3>>, <<5773, 2, 353, 3>>, <<5777, 2, 353, 3>>,
    <<5756, 2, 355, 5>>, <<5759, 2, 355, 5>>, <<5780, 2, 355, 5>>,
    <<5783, 2, 355, 5>>,
    <<5762, 3, 354, 5>>, <<5766, 3, 354, 5>>, <<5769, 3, 354, 5>>,
    <<5748, 5, 354, 7>>, <<5751, 5, 354, 7>>, <<5758, 5, 354, 7>>,
    <<5772, 5, 354, 7>>, <<5775, 5, 354, 7>>, <<5778, 5, 354, 7>>,
    <<5754, 5, 355, 1>>, <<5785, 5, 355, 1>>,
    <<5761, 7, 353, 1>>, <<5781, 7, 353, 1>>,
    <<5750, 7, 355, 3>>, <<5764, 7, 355, 3>>, <<5767, 7, 355, 3>>,
    <<5770, 7, 355, 3>>, <<5788, 7, 355, 3>>,
    <<5749, 2, 383, 5>>, <<5790, 2, 383, 5>>,
    <<5752, 2, 385, 7>>, <<5776, 2, 385, 7>>, <<5779, 2, 385, 7>>,
    <<5755, 3, 384, 7>>, <<5782, 3, 384, 7>>,
    <<5765, 5, 383, 1>>, <<5768, 5, 383, 1>>, <<5812, 5, 383, 1>>,
    <<5744, 5, 385, 3>>, <<5771, 5, 385, 3>>, <<5774, 5, 385, 3>>,
    <<5757, 7, 383, 3>>, <<5784, 7, 383, 3>>,
    <<5760, 7, 385, 5>>, <<5763, 7, 385, 5>>, <<5787, 7, 385, 5>> }

(***************************************************************************)
(* Properties                                                              *)
(***************************************************************************)
\* The HDate objects built from the Gregorian dates of the range.
BuiltFromGregorian == Constructed({DateValue(DateOfJdn(j)) : j \in Jdns})

HebrewTriple(obj) == <<obj.h_day, obj.h_month, obj.h_year>>

\* C1: round trip.  When hdate_set_hdate is called on a second HDate with
\* the Hebrew triple of an HDate d built from a Gregorian date, it returns
\* and leaves the second HDate with d's Hebrew triple, d's jdn, d's gdate
\* and d's weekday.
C1_RoundTrip ==
    op.name = "hdate_set_hdate" =>
        \A d \in BuiltFromGregorian :
            <<op.day, op.month, op.year>> = HebrewTriple(d) =>
                /\ raised = ""
                /\ HebrewTriple(self) = HebrewTriple(d)
                /\ jdn(self) = jdn(d)
                /\ self.gdate = d.gdate
                /\ dow(self) = dow(d)

\* hdate_set_hdate has been called with the triple of a day of Adar II and
\* has returned.
C1_Witness ==
    /\ op.name = "hdate_set_hdate"
    /\ raised = ""
    /\ op.month = 14
    /\ \E d \in BuiltFromGregorian :
         <<op.day, op.month, op.year>> = HebrewTriple(d) /\ self.gdate = d.gdate

\* The number of days the conversion from the Gregorian dates gives a month
\* of a year of the range.
ActualMonthLength(month, year) ==
    Cardinality({d \in BuiltFromGregorian :
                    ~d.diaspora /\ d.h_month = month /\ d.h_year = year})

SameJdn(obj) == HebrewTriple(obj) = jdn_to_hdate(gdate_to_jdn(obj.gdate))

\* C10: after the constructor and after every operation, returned or
\* raised, the Hebrew triple is jdn_to_hdate(gdate_to_jdn(gdate)); an
\* operation that raises leaves gdate and the Hebrew triple as they were.
C10_SameJdn ==
    /\ SameJdn(self)
    /\ [][/\ SameJdn(self')
          /\ raised' # "" => /\ self'.gdate = self.gdate
                              /\ HebrewTriple(self') = HebrewTriple(self)]_vars

\* hdate_set_jdn has raised on an HDate whose representations agree.
C10_Witness ==
    /\ op.name = "hdate_set_jdn"
    /\ raised = "ValueError"
    /\ SameJdn(self)

\* The rules of HOLIDAYS that pass the three filters for an HDate.
MatchingRules(obj) ==
    {i \in DOMAIN HOLIDAYS :
        /\ <<obj.h_day, obj.h_month>> \in HOLIDAYS[i].days \X HOLIDAYS[i].months
        /\ HOLIDAYS[i].israel_diaspora \in
             {"", IF obj.diaspora THEN "DIASPORA" ELSE "ISRAEL"}
        /\ \A k \in DOMAIN HOLIDAYS[i].date_functions_list :
             holiday_function(HOLIDAYS[i].date_functions_list[k], obj)}

\* C3: for every date and both values of diaspora the filters of
\* _holiday_entry leave at most one rule, so the assertion holds; the rule
\* left is returned, and HOLIDAYS[0] (id 0) when none is; no ISRAEL rule is
\* returned in the Diaspora and no DIASPORA rule in Israel; 16 Nissan is
\* id 32 in the Diaspora and id 16 in Israel; 23 Tishrei, 22 Nissan and
\* 7 Sivan are id 0 in Israel.
C3_AtMostOneHoliday ==
    op.name = "_holiday_entry" =>
        /\ raised = ""
        /\ Cardinality(MatchingRules(self)) <= 1
        /\ ret.left = Cardinality(MatchingRules(self))
        /\ \A i \in MatchingRules(self) : ret.entry = HOLIDAYS[i]
        /\ MatchingRules(self) = {} =>
             ret.entry = HOLIDAYS[1] /\ ret.entry.index = 0
        /\ ~(ret.entry.israel_diaspora = "ISRAEL" /\ self.diaspora)
        /\ ~(ret.entry.israel_diaspora = "DIASPORA" /\ ~self.diaspora)
        /\ <<self.h_day, self.h_month>> = <<16, 7>> =>
             ret.entry.index = IF self.diaspora THEN 32 ELSE 16
        /\ (/\ <<self.h_day, self.h_month>> \in {<<23, 1>>, <<22, 7>>, <<7, 9>>}
            /\ ~self.diaspora) => ret.entry.index = 0

\* _holiday_entry has returned Pesach II on 16 Nissan in the Diaspora.
C3_Witness ==
    /\ op.name = "_holiday_entry"
    /\ <<self.h_day, self.h_month>> = <<16, 7>>
    /\ self.diaspora
    /\ ret.entry.index = 32

\* The HDate of the day after an HDate's.
DayAfter(obj) ==
    HDate(DateValue(DateOfJdn(jdn(obj) + 1)), obj.diaspora, obj.gdate).self

\* C4: get_omer_day is in 0..49: day - 15 from 16 Nissan, day + 15 in Iyyar,
\* day + 44 until 5 Sivan, one more on each following day from 1 on
\* 16 Nissan up to 49 on 5 Sivan, and 0 on every other date of the year.
C4_OmerDay ==
    op.name = "get_omer_day" =>
        /\ ret \in 0..49
        /\ ret = CASE self.h_month = 7 /\ self.h_day >= 16 -> self.h_day - 15
                   [] self.h_month = 8 -> self.h_day + 15
                   [] self.h_month = 9 /\ self.h_day <= 5 -> self.h_day + 44
                   [] OTHER -> 0
        /\ ret \in 1..48 => get_omer_day(DayAfter(self)) = ret + 1
        /\ <<self.h_day, self.h_month>> = <<16, 7>> => ret = 1
        /\ <<self.h_day, self.h_month>> = <<5, 9>> => ret = 49

\* get_omer_day has returned 49 on 5 Sivan.
C4_Witness ==
    /\ op.name = "get_omer_day"
    /\ <<self.h_day, self.h_month>> = <<5, 9>>
    /\ ret = 49

\* C5: year_size is one of 353, 354, 355, 383, 384, 385, is one of the last
\* three exactly when the year mod 19 is in {0, 3, 6, 8, 11, 14, 17}, is the
\* number of days from 1 Tishrei to 1 Tishrei of the next year, and is the
\* length the reference table gives the year.
C5_YearSize ==
    op.name = "year_size" =>
        /\ ret \in {353, 354, 355, 383, 384, 385}
        /\ ret \in {383, 384, 385} <=>
             self.h_year % 19 \in {0, 3, 6, 8, 11, 14, 17}
        /\ ret = hdate_to_jdn(1, 1, self.h_year + 1).jdn
                 - hdate_to_jdn(1, 1, self.h_year).jdn
        /\ \A info \in HEBREW_YEARS_INFO :
             info[1] = self.h_year => ret = info[3]

\* year_size has returned 355 for 5780, a year of the reference table.
C5_Witness ==
    /\ op.name = "year_size"
    /\ self.h_year = 5780
    /\ ret = 355

(***************************************************************************)
(* Properties of the formatters                                            *)
(***************************************************************************)
Letters ==
    ({DIGITS[t][i] : t \in {1, 2}, i \in 1..10}
        \cup {DIGITS[3][i] : i \in 1..5}) \ {" "}

\* The value of a letter as a numeral.
LetterValue(letter) ==
    CASE letter = "alef" -> 1 [] letter = "bet" -> 2 [] letter = "gimel" -> 3
      [] letter = "dalet" -> 4 [] letter = "he" -> 5 [] letter = "vav" -> 6
      [] letter = "zayin" -> 7 [] letter = "het" -> 8 [] letter = "tet" -> 9
      [] letter = "yod" -> 10 [] letter = "kaf" -> 20 [] letter = "lamed" -> 30
      [] letter = "mem" -> 40 [] letter = "nun" -> 50 [] letter = "samekh" -> 60
      [] letter = "ayin" -> 70 [] letter = "pe" -> 80 [] letter = "tsadi" -> 90
      [] letter = "qof" -> 100 [] letter = "resh" -> 200
      [] letter = "shin" -> 300 [] letter = "tav" -> 400

RECURSIVE SumOfLetters(_)
SumOfLetters(letters) ==
    IF letters = <<>> THEN 0
    ELSE LetterValue(Head(letters)) + SumOfLetters(Tail(letters))

LettersOf(string) == SelectSeq(string, LAMBDA c : c \in Letters)

Count(string, c) == Cardinality({i \in DOMAIN string : string[i] = c})

RECURSIVE Copies(_, _)
Copies(c, k) == IF k = 0 THEN <<>> ELSE <<c>> \o Copies(c, k - 1)

\* The letters of the tens and ones of a remainder below 100.
TensAndOnes(t) ==
    CASE t = 15 -> <<digit(1, 0), digit(0, 6)>>
      [] t = 16 -> <<digit(1, 0), digit(0, 7)>>
      [] OTHER -> (IF t \div 10 # 0 THEN <<digit(1, t \div 10)>> ELSE <<>>)
                  \o (IF t % 10 # 0 THEN <<digit(0, t % 10)>> ELSE <<>>)

\* The letters below the thousands, for r below 1000.
BelowThousand(r) ==
    Copies(digit(2, 4), r \div 400)
    \o (IF (r % 400) \div 100 # 0
        THEN <<digit(2, (r % 400) \div 100)>> ELSE <<>>)
    \o TensAndOnes(r % 100)

\* C6: in Hebrew mode, for n in 0..9999, the letters of hebrew_number are
\* the ones letter of n div 1000, followed by the thousands marker, iff
\* n >= 1000, then for r = n mod 1000 the 400 letter r div 400 times, the
\* hundreds letter of (r mod 400) div 100 if it is not 0, and the tens and
\* ones letters of the rest, 15 and 16 as 9+6 and 9+7 and never 10+5 or
\* 10+6; their place values sum to n.  The marker is the geresh right after
\* the thousands letter and one space, which the short output has right
\* after the geresh.
C6_PlaceValues ==
    (op.name = "hebrew_number" /\ op.hebrew /\ op.num \in 0..9999) =>
        /\ raised = ""
        /\ LettersOf(ret) =
             (IF op.num >= 1000 THEN <<digit(0, op.num \div 1000)>> ELSE <<>>)
             \o BelowThousand(op.num % 1000)
        /\ op.num >= 1000 =>
             /\ SubSeq(ret, 1, 2) = <<digit(0, op.num \div 1000), "'">>
             /\ Count(ret, " ") = 1
             /\ op.short => ret[3] = " "
             /\ 1000 * LetterValue(ret[1]) + SumOfLetters(Tail(LettersOf(ret)))
                  = op.num
        /\ op.num < 1000 =>
             /\ Count(ret, " ") = 0
             /\ op.short => Count(ret, "'") = 0
             /\ SumOfLetters(LettersOf(ret)) = op.num
        /\ \A i \in 1..(Len(ret) - 1) :
             ~(ret[i] = "yod" /\ ret[i + 1] \in {"he", "vav"})

\* hebrew_number has returned the numeral of 5716: 5, the marker, 400, 300
\* and 9+7.
C6_Witness ==
    /\ op.name = "hebrew_number"
    /\ op.hebrew /\ op.short
    /\ op.num = 5716
    /\ ret = <<"he", "'", " ", "tav", "shin", "tet", "zayin">>

\* The characters of the strings of hebrew_number.
Characters ==
    Letters \cup {"'", "\"", " ", "-"}
        \cup {DecimalDigits[i] : i \in DOMAIN DecimalDigits}

\* The words, the prefix ve and the space of the strings of get_omer_string.
OmerWords ==
    {"hayom", "yom", "yamim", "shnei", "asar", "ve", "shehem", "shavua",
     "shavuot", "laomer", " "}
        \cup {tens[i][1] : i \in 2..Len(tens)}
        \cup {ones[i][1] : i \in 2..Len(ones)}

\* C7 as stated: hebrew_number raises a range error for every n outside
\* 0..9999 and returns a string for every n inside, whatever its hebrew and
\* short flags; get_omer_string raises a range error for every n outside
\* 1..49 and returns a string for every n inside.
C7_RangeCheckedInEveryMode ==
    /\ op.name = "hebrew_number" =>
         IF op.num \in 0..9999
         THEN raised = "" /\ ret \in Seq(Characters)
         ELSE raised = "ValueError"
    /\ op.name = "get_omer_string" =>
         IF op.num \in 1..49
         THEN raised = "" /\ ret \in Seq(OmerWords)
         ELSE raised = "ValueError"

\* C7, amended: with hebrew true, hebrew_number raises a range error for
\* every n outside 0..9999 and returns a string for every n inside, for both
\* values of short; with hebrew false it returns the decimal string of n for
\* every n, in or out of 0..9999; get_omer_string raises a range error for
\* every n outside 1..49 and returns a string for every n inside.
C7_RangeChecked ==
    /\ (op.name = "hebrew_number" /\ op.hebrew) =>
         IF op.num \in 0..9999
         THEN raised = "" /\ ret \in Seq(Characters)
         ELSE raised = "ValueError"
    /\ (op.name = "hebrew_number" /\ ~op.hebrew) =>
         raised = "" /\ ret = str(op.num)
    /\ op.name = "get_omer_string" =>
         IF op.num \in 1..49
         THEN raised = "" /\ ret \in Seq(OmerWords)
         ELSE raised = "ValueError"

\* hebrew_number has raised on 10000 in Hebrew mode.
C7_Witness ==
    /\ op.name = "hebrew_number"
    /\ op.hebrew
    /\ op.num = 10000
    /\ raised = "ValueError"

\* The number a word of the Omer phrase stands for (0 for the nouns, the
\* spaces and ve).
WordValue(word) ==
    CASE word = "ehad" -> 1 [] word = "shnayim" -> 2 [] word = "shnei" -> 2
      [] word = "shlosha" -> 3 [] word = "arbaa" -> 4 [] word = "hamisha" -> 5
      [] word = "shisha" -> 6 [] word = "shiva" -> 7 [] word = "shmona" -> 8
      [] word = "tisha" -> 9 [] word = "asar" -> 10 [] word = "asara" -> 10
      [] word = "esrim" -> 20 [] word = "shloshim" -> 30
      [] word = "arbaim" -> 40 [] OTHER -> 0

RECURSIVE PhraseValue(_)
PhraseValue(words) ==
    IF words = <<>> THEN 0
    ELSE WordValue(Head(words)) + PhraseValue(Tail(words))

\* The words of a phrase, without the spaces.
Words(string) == SelectSeq(string, LAMBDA w : w # " ")

Position(words, w) == CHOOSE i \in DOMAIN words : words[i] = w

\* The three forms of a count of a noun: the noun and "one", the dual, or
\* the number word and the plural noun.
CountForm(words, k, singular, plural) ==
    CASE k = 1 -> words = <<singular, "ehad">>
      [] k = 2 -> words = <<"shnei", plural>>
      [] OTHER -> words = ones[k + 1] \o <<plural>>

\* The day-count clause of the words of a phrase: after hayom, up to shehem
\* or laomer.
DayCountClause(words) ==
    SubSeq(words, 2,
           (IF Count(words, "shehem") > 0 THEN Position(words, "shehem")
            ELSE Position(words, "laomer")) - 1)

\* The clause of the weeks: after shehem, up to laomer.
WeeksClause(words) ==
    SubSeq(words, Position(words, "shehem") + 1, Len(words) - 1)

\* The weeks of the clause of the weeks: up to ve, or all of it.
WeeksPart(clause) ==
    IF Count(clause, "ve") > 0
    THEN SubSeq(clause, 1, Position(clause, "ve") - 1)
    ELSE clause

\* The days of the clause of the weeks: after ve.
DaysPart(clause) ==
    IF Count(clause, "ve") > 0
    THEN SubSeq(clause, Position(clause, "ve") + 1, Len(clause))
    ELSE <<>>

\* The day-count clause of n: the words stand for n, then one noun.
DayCountOf(clause, n) ==
    /\ PhraseValue(clause) = n
    /\ Count(clause, "yom") + Count(clause, "yamim") = 1
    /\ CASE n \in 1..2 -> CountForm(clause, n, "yom", "yamim")
         [] n \in 3..10 -> clause[Len(clause)] = "yamim"
                           /\ Count(clause, "shnei") = 0
         [] OTHER -> clause[Len(clause)] = "yom"
                     /\ Count(clause, "shnei") = 0

\* The clause of the weeks of n: n div 7 weeks and n mod 7 days.
WeeksOf(clause, n) ==
    /\ CountForm(WeeksPart(clause), n \div 7, "shavua", "shavuot")
    /\ PhraseValue(WeeksPart(clause)) = n \div 7
    /\ Count(clause, "ve") > 0 <=> n % 7 # 0
    /\ n % 7 # 0 => CountForm(DaysPart(clause), n % 7, "yom", "yamim")
    /\ 7 * PhraseValue(WeeksPart(clause)) + PhraseValue(DaysPart(clause)) = n

\* C8: for n in 1..49 the phrase of get_omer_string is "today", one
\* day-count clause that stands for n (the noun and "one" for 1, the dual
\* for 2, the number and the plural noun for 3..10, the number and the
\* singular noun from 11), a clause of the weeks iff n >= 7, and "of the
\* Omer"; the clause of the weeks states n div 7 weeks and n mod 7 days, each
\* in the singular, dual or plural form of its count, and leaves the days
\* out exactly when n mod 7 = 0.
C8_OmerPhrase ==
    (op.name = "get_omer_string" /\ op.num \in 1..49) =>
        /\ raised = ""
        /\ Head(Words(ret)) = "hayom"
        /\ Words(ret)[Len(Words(ret))] = "laomer"
        /\ Count(ret, "hayom") = 1 /\ Count(ret, "laomer") = 1
        /\ DayCountOf(DayCountClause(Words(ret)), op.num)
        /\ Count(ret, "shehem") = (IF op.num >= 7 THEN 1 ELSE 0)
        /\ op.num >= 7 => WeeksOf(WeeksClause(Words(ret)), op.num)

\* get_omer_string has returned the phrase of 33: four weeks and five days.
C8_Witness ==
    /\ op.name = "get_omer_string"
    /\ op.num = 33
    /\ WeeksClause(Words(ret)) =
         <<"arbaa", "shavuot", "ve", "hamisha", "yamim">>

\* A string without its character at position i.
Without(string, i) ==
    SubSeq(string, 1, i - 1) \o SubSeq(string, i + 1, Len(string))

\* C9: in Hebrew mode, for n in 1..9999, the output of hebrew_number that
\* is not short is its short output with one mark added: a geresh right
\* after the letter when the numeral has one letter, else a gershayim right
\* before the numeral's last letter; so it ends with a letter or with that
\* geresh, also for 1000, 2000, ..., 9000; the short output has no
\* gershayim, and no geresh but the one of the thousands marker.
C9_Punctuation ==
    (op.name = "hebrew_number" /\ op.hebrew /\ op.num \in 1..9999) =>
        IF op.short
        THEN /\ Count(ret, "\"") = 0
             /\ Count(ret, "'") = (IF op.num >= 1000 THEN 1 ELSE 0)
        ELSE /\ ret[Len(ret)] \in Letters \cup {"'"}
             /\ IF Len(LettersOf(ret)) = 1
                THEN \E i \in 2..Len(ret) :
                        /\ ret[i] = "'"
                        /\ ret[i - 1] \in Letters
                        /\ Without(ret, i)
                             = hebrew_number(op.num, TRUE, TRUE).ret
                ELSE /\ ret[Len(ret)] \in Letters
                     /\ ret[Len(ret) - 1] = "\""
                     /\ Without(ret, Len(ret) - 1)
                          = hebrew_number(op.num, TRUE, TRUE).ret

\* The outcome of hdate_set_hdate(day, month, obj.h_year) on an HDate.
SetInYear(obj, day, month) ==
    hdate_set_hdate(obj, day, month, obj.h_year, obj.gdate)

DaysSinceRoshHashana(obj) == jdn(obj) - jdn(SetInYear(obj, 1, 1).self)

\* The elapsed-week number of an HDate.
ElapsedWeeks(obj) ==
    (DaysSinceRoshHashana(obj) + rosh_hashana_dow(obj) - 1) \div 7

\* The year-type key of an HDate.
YearTypeKey(obj) ==
    (IF obj.diaspora THEN 1000 ELSE 0) + rosh_hashana_dow(obj) * 100
    + ((year_size(obj) % 10) - 3) * 10 + pesach_dow(obj)

\* Simchat Torah: 22 Tishrei in Israel, 23 Tishrei in the Diaspora.
SimchatTorah(obj) ==
    obj.h_month = 1 /\ obj.h_day = (IF obj.diaspora THEN 23 ELSE 22)

\* C12: get_reading returns; on Simchat Torah, 21 days after Rosh Hashana
\* in Israel and 22 days after in the Diaspora, it returns 54 by the
\* override of the weeks 3 and 4, without looking up the readings; every
\* date the override does not catch returns the reading at the place of
\* the elapsed-week number in the readings of the year-type key.
C12_Reading ==
    op.name = "get_reading" =>
        /\ raised = ""
        /\ SimchatTorah(self) =>
              /\ DaysSinceRoshHashana(self)
                   = (IF self.diaspora THEN 22 ELSE 21)
              /\ ret.reading = 54
              /\ ~ret.table
        /\ ~ret.table => ret.reading = 54 /\ ElapsedWeeks(self) \in {3, 4}
        /\ ret.table =>
              ret.reading = READINGS[YearTypeKey(self)][ElapsedWeeks(self) + 1]

\* get_reading has returned 54 on 23 Tishrei in the Diaspora in a year whose
\* Rosh Hashana is a Saturday: the case of week 4.
C12_Witness ==
    /\ op.name = "get_reading"
    /\ SimchatTorah(self) /\ self.diaspora
    /\ rosh_hashana_dow(self) = 7
    /\ ElapsedWeeks(self) = 4
    /\ ret.reading = 54

====
